---- MODULE Spec2Model ----
(***************************************************************************)
(* Model of the correct_word crate: the Levenshtein distance engine        *)
(* (src/src/levenshtein.rs) and the best-match selector (src/src/lib.rs).  *)
(*                                                                         *)
(* A Rust String is modelled as the sequence of its chars (Unicode code    *)
(* points, as integers).  String::len() is the length of the UTF-8         *)
(* encoding in bytes, String::chars() walks the code points; the two       *)
(* differ as soon as a char is outside ASCII, and the code uses both.      *)
(***************************************************************************)
EXTENDS Integers, Sequences, FiniteSets, TLC

\* ------------------------------------------------------------------ bounds

\* Longest string (in chars) given to the distance engine.
MaxLen == 2

\* Longest word (in chars) given to the selector, and longest option list.
MaxWordLen == 1
MaxOptions == 2

\* 'a', 'b' (1 byte each in UTF-8), U+00E9 (2 bytes), U+20AC (3 bytes).
Alphabet == {97, 98, 233, 8364}

\* The selector's words: 'a', 'b' and U+00E9.
WordAlphabet == {97, 98, 233}

\* ----------------------------------------------------------- Rust values

U8_MAX == 255
U16_MAX == 65535

\* usize -> u16 with `as`: the value modulo 2^16.
AsU16(n) == n % 65536

\* char::len_utf8: the bytes one code point takes in a String.
Utf8Len(c) == IF c < 128 THEN 1 ELSE IF c < 2048 THEN 2 ELSE IF c < 65536 THEN 3 ELSE 4

\* String::len(): the length in BYTES.
RECURSIVE ByteLen(_)
ByteLen(s) == IF s = <<>> THEN 0 ELSE Utf8Len(Head(s)) + ByteLen(Tail(s))

\* String::chars().count() is Len(s).

\* A call either returns a value or panics (index out of bounds).
Ok(v) == [panic |-> FALSE, value |-> v]
Panic == [panic |-> TRUE, value |-> 0]

\* Option<T>: None is the empty sequence, Some(x) a one-element sequence.
None == <<>>
Some(x) == <<x>>

Min(x, y) == IF x <= y THEN x ELSE y
Max(x, y) == IF x >= y THEN x ELSE y

\* ------------------------------------------------------- distance engine

\* The inner loop of levenshtein_distance: one row of the table.
\* Rust's row[k] is row[k + 1] here (sequences start at 1).
RECURSIVE InnerLoop(_, _, _, _, _)
InnerLoop(previous_row, current_row, c1, string2, j) ==
    IF j >= Len(string2) THEN current_row
    ELSE LET c2 == string2[j + 1]
             insertions == previous_row[j + 2] + 1
             deletions == current_row[j + 1] + 1
             substitutions == previous_row[j + 1] + (IF c1 = c2 THEN 0 ELSE 1)
         IN  InnerLoop(previous_row,
                       Append(current_row, Min(Min(insertions, deletions), substitutions)),
                       c1, string2, j + 1)

\* The outer loop: for (i, c1) in string1.chars().enumerate().
RECURSIVE OuterLoop(_, _, _, _)
OuterLoop(previous_row, string1, string2, i) ==
    IF i >= Len(string1) THEN previous_row
    ELSE OuterLoop(InnerLoop(previous_row, <<i + 1>>, string1[i + 1], string2, 0),
                   string1, string2, i + 1)

\* previous_row[string2.len()]: the index is the BYTE length of string2.
\* Indexing a Vec past its end panics.
LastCell(previous_row, string2) ==
    IF ByteLen(string2) + 1 \in DOMAIN previous_row
    THEN Ok(AsU16(previous_row[ByteLen(string2) + 1]))
    ELSE Panic

RECURSIVE levenshtein_distance(_, _)
levenshtein_distance(string1, string2) ==
    IF ByteLen(string1) < ByteLen(string2) THEN levenshtein_distance(string2, string1)
    ELSE IF string2 = <<>> THEN Ok(AsU16(ByteLen(string1)))
    ELSE LastCell(OuterLoop([k \in 1..(ByteLen(string2) + 1) |-> k - 1],
                            string1, string2, 0),
                  string2)

\* An f64: a ratio num/den with den > 0, or NaN, or an infinity.
Finite(n, d) == [kind |-> "finite", num |-> n, den |-> d]
NaN == [kind |-> "nan", num |-> 0, den |-> 1]
NegInf == [kind |-> "neginf", num |-> 0, den |-> 1]

\* 1.0 - (distance as f64 / max as f64), by IEEE 754: 0.0 / 0.0 is NaN and
\* 1.0 - NaN is NaN; x / 0.0 is +inf for x > 0 and 1.0 - inf is -inf.
OneMinusRatio(distance, max) ==
    IF max = 0
    THEN (IF distance = 0 THEN NaN ELSE NegInf)
    ELSE Finite(max - distance, max)

levenshtein_similarity(string1, string2) ==
    LET distance == levenshtein_distance(string1, string2)
    IN  IF distance.panic THEN Panic
        ELSE Ok(OneMinusRatio(distance.value, Max(ByteLen(string1), ByteLen(string2))))

\* ------------------------------------------------------------- selector

VARIABLES
    input,          \* correct_word's input: String
    options,        \* correct_word's options: Vec<String>
    threshold,      \* correct_word's threshold: Option<u8>
    pc,             \* where correct_word is: "scan", "done", "panic"; "idle" when not called
    idx,            \* position of options.iter(): the next option, from 1
    best,           \* let mut best
    best_distance,  \* let mut best_distance
    result,         \* the CorrectWord returned: None until the call returns
    a, b, c,        \* the strings given to the distance engine
    phase,          \* the engine's caller: "start", "distance", "similarity"; "idle" when unused
    distance,       \* what levenshtein_distance gave for the pairs of a, b, c
    similarity      \* what levenshtein_similarity gave

vars == <<input, options, threshold, pc, idx, best, best_distance, result,
          a, b, c, phase, distance, similarity>>

selector_vars == <<input, options, threshold, pc, idx, best, best_distance, result>>
engine_vars == <<a, b, c, phase, distance, similarity>>

\* All strings of at most n chars over the alphabet A.
StringsUpTo(A, n) == UNION {[1..k -> A] : k \in 0..n}

\* All lists of at most n members of S.
ListsUpTo(S, n) == UNION {[1..k -> S] : k \in 0..n}

Words == StringsUpTo(WordAlphabet, MaxWordLen)

\* Option<u8>: omitted, the smallest, a few small ones, the largest.
Thresholds == {None, Some(0), Some(1), Some(2), Some(5), Some(U8_MAX)}

\* The calls of the crate's own examples (lib.rs doc test and unit test).
hilo == <<104, 105, 108, 111>>
hello == <<104, 101, 108, 108, 111>>
world == <<119, 111, 114, 108, 100>>
he == <<104, 101>>
hi == <<104, 105>>

DocCalls == {<<hilo, <<hello, world>>, Some(5)>>,
             <<he, <<hello, world, hi>>, Some(5)>>,
             <<hilo, <<hello, world>>, None>>}

Calls == (Words \X ListsUpTo(Words, MaxOptions) \X Thresholds) \cup DocCalls

EngineIdle ==
    /\ a = <<>> /\ b = <<>> /\ c = <<>>
    /\ phase = "idle"
    /\ distance = None
    /\ similarity = None

\* correct_word is entered: best and best_distance are initialised.
Init ==
    /\ \E call \in Calls :
          /\ input = call[1]
          /\ options = call[2]
          /\ threshold = call[3]
    /\ pc = "scan"
    /\ idx = 1
    /\ best = <<>>
    /\ best_distance = U16_MAX
    /\ result = None
    /\ EngineIdle

\* if distance < best_distance
Closer(d, bd) == d < bd

\* One turn of options.iter().for_each: the distance call returns.
Scan ==
    /\ pc = "scan"
    /\ idx <= Len(options)
    /\ LET option == options[idx]
           d == levenshtein_distance(input, option)
       IN  /\ ~d.panic
           /\ IF Closer(d.value, best_distance)
              THEN best' = option /\ best_distance' = d.value
              ELSE UNCHANGED <<best, best_distance>>
    /\ idx' = idx + 1
    /\ UNCHANGED <<input, options, threshold, pc, result>>
    /\ UNCHANGED engine_vars

\* One turn of options.iter().for_each: the distance call panics, and the
\* panic unwinds through correct_word.
ScanPanic ==
    /\ pc = "scan"
    /\ idx <= Len(options)
    /\ levenshtein_distance(input, options[idx]).panic
    /\ pc' = "panic"
    /\ UNCHANGED <<input, options, threshold, idx, best, best_distance, result>>
    /\ UNCHANGED engine_vars

\* threshold.unwrap_or(0) as u16
UnwrapOr0(t) == IF t = None THEN 0 ELSE t[1]

\* CorrectWord with the threshold test left out: the best option always.
CorrectWordUnchecked(bst, bd, t) == [word |-> Some(bst), confidence |-> bd]

\* The CorrectWord built after the scan.
CorrectWord(bst, bd, t) ==
    IF bd > UnwrapOr0(t)
    THEN [word |-> None, confidence |-> bd]
    ELSE [word |-> Some(bst), confidence |-> bd]

\* The scan is over: the threshold decides.
Decide ==
    /\ pc = "scan"
    /\ idx > Len(options)
    /\ result' = Some(CorrectWord(best, best_distance, threshold))
    /\ pc' = "done"
    /\ UNCHANGED <<input, options, threshold, idx, best, best_distance>>
    /\ UNCHANGED engine_vars

Next == Scan \/ ScanPanic \/ Decide

Spec == Init /\ [][Next]_vars

\* ------------------------------------------- the engine, called directly

Strings == StringsUpTo(Alphabet, MaxLen)

SelectorIdle ==
    /\ input = <<>>
    /\ options = <<>>
    /\ threshold = None
    /\ pc = "idle"
    /\ idx = 1
    /\ best = <<>>
    /\ best_distance = U16_MAX
    /\ result = None

InitDistance ==
    /\ a \in Strings
    /\ b \in Strings
    /\ c \in Strings
    /\ phase = "start"
    /\ distance = None
    /\ similarity = None
    /\ SelectorIdle

\* levenshtein_distance is called on the pairs of a, b, c.
CallDistance ==
    /\ phase = "start"
    /\ distance' = Some([ab |-> levenshtein_distance(a, b),
                         ba |-> levenshtein_distance(b, a),
                         ac |-> levenshtein_distance(a, c),
                         bc |-> levenshtein_distance(b, c)])
    /\ phase' = "distance"
    /\ UNCHANGED <<a, b, c, similarity>>
    /\ UNCHANGED selector_vars

\* levenshtein_similarity is called on a with itself and on a with b.
CallSimilarity ==
    /\ phase = "distance"
    /\ similarity' = Some([aa |-> levenshtein_similarity(a, a),
                           ab |-> levenshtein_similarity(a, b)])
    /\ phase' = "similarity"
    /\ UNCHANGED <<a, b, c, distance>>
    /\ UNCHANGED selector_vars

NextDistance == CallDistance \/ CallSimilarity

SpecDistance == InitDistance /\ [][NextDistance]_vars

\* ---------------------------------------------------------------- claims

\* The edit distance of the contract: the least number of single-char
\* insertions, deletions and substitutions turning x into y, counted on
\* code points.
RECURSIVE EditDistance(_, _)
EditDistance(x, y) ==
    IF x = <<>> THEN Len(y)
    ELSE IF y = <<>> THEN Len(x)
    ELSE Min(Min(EditDistance(Tail(x), y) + 1, EditDistance(x, Tail(y)) + 1),
             EditDistance(Tail(x), Tail(y)) + (IF Head(x) = Head(y) THEN 0 ELSE 1))

IsAscii(s) == \A k \in DOMAIN s : s[k] < 128

\* The smallest edit distance between the input and any option, and the
\* positions of the options that have it.
Smallest == CHOOSE m \in {EditDistance(input, options[k]) : k \in DOMAIN options} :
                \A k \in DOMAIN options : m <= EditDistance(input, options[k])
Nearest == {k \in DOMAIN options : EditDistance(input, options[k]) = Smallest}
FirstNearest == CHOOSE k \in Nearest : \A l \in Nearest : k <= l

Returned == pc = "done"
Word == result[1].word
Confidence == result[1].confidence

\* C1: whenever levenshtein_distance(a, b) returns, it returns the least
\* number of single-char insertions, deletions and substitutions turning a
\* into b, counted on code points and not on bytes.
C1_DistanceIsEditDistance ==
    (phase = "distance" /\ ~distance[1].ab.panic)
        => distance[1].ab.value = EditDistance(a, b)

\* C2: when the smallest distance between the input and the options of a
\* non-empty list is within the threshold, correct_word returns an option at
\* that smallest distance, with that distance as the confidence.
C2_NearestWithinThreshold ==
    (Returned /\ options # <<>> /\ Smallest <= UnwrapOr0(threshold))
        => /\ Word # None
           /\ \E k \in Nearest : Word = Some(options[k])
           /\ Confidence = Smallest

\* C3: when the smallest distance between the input and the options of a
\* non-empty list is above the threshold, correct_word returns no word, and
\* that smallest distance as the confidence.
C3_NoneAboveThreshold ==
    (Returned /\ options # <<>> /\ Smallest > UnwrapOr0(threshold))
        => /\ Word = None
           /\ Confidence = Smallest

\* C4: when several options share the smallest distance and it is within the
\* threshold, correct_word returns the first of them in the list.
C4_FirstOfTiesWins ==
    (Returned /\ options # <<>> /\ Cardinality(Nearest) >= 2
              /\ Smallest <= UnwrapOr0(threshold))
        => Word = Some(options[FirstNearest])

\* C5: with an empty option list correct_word returns, whatever the input and
\* the threshold, no word and the sentinel u16::MAX as the confidence.
C5_EmptyOptions ==
    (options = <<>> /\ pc \in {"done", "panic"})
        => /\ pc = "done"
           /\ result = Some([word |-> None, confidence |-> 65535])

\* C5's case: the call with no options and the largest threshold returned.
C5_Witness ==
    /\ pc = "done"
    /\ options = <<>>
    /\ input # <<>>
    /\ threshold = Some(255)

\* C6: whenever levenshtein_similarity(x, x) returns, it returns 1.0, also
\* for the empty x; never NaN.
C6_SimilarityOfEqualIsOne ==
    (phase = "similarity" /\ ~similarity[1].aa.panic)
        => /\ similarity[1].aa.value.kind = "finite"
           /\ similarity[1].aa.value.num = similarity[1].aa.value.den

\* C7: levenshtein_distance returns for every pair of strings: it never
\* panics.
C7_DistanceIsTotal ==
    phase = "distance" => ~distance[1].ab.panic

\* C8: levenshtein_distance(a, b) and levenshtein_distance(b, a) end alike.
C8_DistanceIsSymmetric ==
    phase = "distance" => distance[1].ab = distance[1].ba

\* C9: whenever the three calls return, levenshtein_distance(a, c) is at
\* most levenshtein_distance(a, b) + levenshtein_distance(b, c).
C9_TriangleInequality ==
    (phase = "distance" /\ ~distance[1].ab.panic /\ ~distance[1].bc.panic
                        /\ ~distance[1].ac.panic)
        => distance[1].ac.value <= distance[1].ab.value + distance[1].bc.value

\* C10: with the threshold omitted, correct_word returns a word for every
\* non-empty option list (stated here for ASCII text, where the distance
\* engine is sound).
C10_OmittedThresholdReturnsBest ==
    (Returned /\ threshold = None /\ options # <<>> /\ IsAscii(input)
              /\ \A k \in DOMAIN options : IsAscii(options[k]))
        => Word # None

\* ------------------------------------------------- the same, on ASCII text

\* On ASCII text bytes and chars coincide; what follows holds there, which
\* places the failures above in the engine's use of String::len().

AsciiCall == IsAscii(input) /\ \A k \in DOMAIN options : IsAscii(options[k])

OnAscii_DistanceIsEditDistance ==
    (phase = "distance" /\ IsAscii(a) /\ IsAscii(b))
        => distance[1].ab = Ok(EditDistance(a, b))

OnAscii_Selector ==
    (pc \in {"done", "panic"} /\ AsciiCall /\ options # <<>>)
        => /\ Returned
           /\ Confidence = Smallest
           /\ Word = IF Smallest <= UnwrapOr0(threshold)
                     THEN Some(options[FirstNearest])
                     ELSE None

\* The crate's examples: "hilo" -> "hello" at distance 2, "he" -> "hi".
DocExamples ==
    /\ levenshtein_distance(hilo, hello) = Ok(2)
    /\ (Returned /\ input = hilo /\ threshold = Some(5))
          => result = Some([word |-> Some(hello), confidence |-> 2])
    /\ (Returned /\ input = he) => Word = Some(hi)

====
